---- MODULE Spec2Model ----
(***************************************************************************)
(* zik: a command-line cataloguer of a music library into SQLite.          *)
(* The model follows src/src/main.rs: the scan command (cmd_scan with      *)
(* save_artist / save_album / save_track inside one savepoint), the        *)
(* metadata extractor (Metadata::read_from_path), the config command       *)
(* (cmd_config) and the process entry points (do_main, main).              *)
(***************************************************************************)
EXTENDS Integers, Sequences, FiniteSets, TLC

VARIABLES
    foreign_keys,   \* whether the SQLite library enforces foreign keys
    config,         \* table config: its rows [key, value] in rowid order
    library,        \* what the directory walker yields, in order
    db,             \* tables artist, album, track as the connection sees them
    savepoint,      \* None, or the snapshot taken by db.savepoint()
    pc,             \* "idle" between processes, "walk" inside cmd_scan's loop
    idx,            \* position of the walker in library
    result,         \* what do_main returned in the last finished process
    exit_code,      \* exit code of the last finished process
    stdout,         \* the lines the last finished process printed
    scans,          \* number of scan processes started
    cmd,            \* history: the command of the current or last process
    pre,            \* history: db when the current or last scan began
    written,        \* history: row ids written by the current or last scan
    calls,          \* history: save_artist/save_album arguments of the last entry
    saved,          \* history: last save_track arguments per track name
    prev,           \* history: the scan or library change before the current one
    file,           \* the file handed to read_from_path on its own
    read,           \* None, or what read_from_path returned for file
    args,           \* history: the last config command, without the value's text
    last_set,       \* history: per key, the Config the last successful set stored
    schema,         \* names of the tables and indexes of the database file
    strict,         \* whether the linked SQLite knows the STRICT table option
    startups,       \* number of processes that ran init_database
    schema_pre,     \* history: schema when the last init_database began
    ddl_failed      \* history: positions in ddls of the statements that failed

vars == <<foreign_keys, config, library, db, savepoint, pc, idx, result,
          exit_code, stdout, scans, cmd, pre, written, calls, saved, prev,
          file, read, args, last_set,
          schema, strict, startups, schema_pre, ddl_failed>>
init_vars == <<schema, strict, startups, schema_pre, ddl_failed>>

\* ---------------------------------------------------------------- bounds
MaxFiles == 2       \* entries the walker yields below the library root
MaxScans == 2       \* scan processes in one behaviour
MaxStartups == 2    \* processes that run init_database in one behaviour

\* ------------------------------------------------------- Option / Result
None == <<>>
Some(x) == <<x>>
is_some(o) == o # None
is_none(o) == o = None
unwrap(o) == o[1]
unwrap_or_else(o, d) == IF o = None THEN d ELSE o[1]

Ok(v) == [ok |-> TRUE, v |-> v]
Err(e) == [ok |-> FALSE, v |-> e]
Unit == "()"

Max(S) == CHOOSE x \in S : \A y \in S : y <= x
Min(S) == CHOOSE x \in S : \A y \in S : x <= y

\* ------------------------------------------------------------ str::parse
\* Text that the program parses is a sequence of one-character strings.
Digits == <<"0", "1", "2", "3", "4", "5", "6", "7", "8", "9">>
IsDigit(c) == \E i \in 1..10 : Digits[i] = c
DigitVal(c) == (CHOOSE i \in 1..10 : Digits[i] = c) - 1

RECURSIVE DecimalVal(_)
DecimalVal(s) ==
    IF s = <<>> THEN 0
    ELSE 10 * DecimalVal(SubSeq(s, 1, Len(s) - 1)) + DigitVal(s[Len(s)])

\* value.parse::<usize>(): an optional "+", then at least one digit and
\* nothing but digits (the texts of the model are too short to overflow).
parse_usize(s) ==
    LET body == IF s # <<>> /\ s[1] = "+" THEN Tail(s) ELSE s
    IN  IF body # <<>> /\ \A i \in 1..Len(body) : IsDigit(body[i])
        THEN Ok(DecimalVal(body))
        ELSE Err("ParseIntError")

\* ------------------------------------------------------------- Metadata
Metadata(artist, album, album_artist, year, track_name, track_number) ==
    [artist |-> artist, album |-> album, album_artist |-> album_artist,
     year |-> year, track_name |-> track_name, track_number |-> track_number]

\* A Vorbis comment block maps each key to the values it carries, in order.
get_vorbis_comment(tag, key) ==
    IF tag[key] = <<>> THEN None ELSE Some(Head(tag[key]))

\* An mp4 TryString is bytes; utf8 says whether they decode.
get_mp4_string(value_opt) ==
    IF value_opt = None THEN None
    ELSE IF unwrap(value_opt).utf8 THEN Some(unwrap(value_opt).text)
    ELSE None

from_flac(tag) ==
    LET n == get_vorbis_comment(tag, "TRACK_NUMBER")
    IN  Metadata(get_vorbis_comment(tag, "ARTIST"),
                 get_vorbis_comment(tag, "ALBUM"),
                 get_vorbis_comment(tag, "ALBUMARTIST"),
                 get_vorbis_comment(tag, "DATE"),
                 get_vorbis_comment(tag, "TITLE"),
                 IF n = None THEN 0
                 ELSE IF parse_usize(unwrap(n)).ok THEN parse_usize(unwrap(n)).v
                 ELSE 0)

from_id3(tag) ==
    Metadata(tag.artist, tag.album, tag.album_artist,
             IF tag.year = None THEN None ELSE Some(ToString(unwrap(tag.year))),
             tag.title,
             unwrap_or_else(tag.track, 0))

\* root is what mp4parse::read_mp4 returned: userdata is "None", "Some(Err)"
\* or "Some(Ok)", and in the last case meta is user_data.meta, None or
\* Some(metadata).
from_mp4(root) ==
    IF root.userdata = "None" THEN None
    ELSE IF root.userdata = "Some(Err)" THEN None
    ELSE IF root.meta = None THEN None
    ELSE LET metadata == unwrap(root.meta)
         IN  Some(Metadata(get_mp4_string(metadata.artist),
                           get_mp4_string(metadata.album),
                           get_mp4_string(metadata.album_artist),
                           get_mp4_string(metadata.year),
                           get_mp4_string(metadata.title),
                           unwrap_or_else(metadata.track_number, 0)))

\* A file is what the operating system and the three tag readers answer for
\* it: open and the two rewinds succeed or not, and each reader answers
\* [is, tag]: is = "Ok" with the tag it read, or is = "Err(io)" for a failed
\* read, or is = "Err(format)" for wrong magic or a parse error.
IOError == "MetadataReadError::IO"

\* (variant: the result of the rewind before the ID3 probe is dropped)
read_from_path_unchecked_seek(f) ==
    IF ~f.open THEN Err(IOError)
    ELSE IF f.flac.is = "Ok" THEN Ok(Some(from_flac(f.flac.tag)))
    ELSE IF f.id3.is = "Ok" THEN Ok(Some(from_id3(f.id3.tag)))
    ELSE IF ~f.seek2 THEN Err(IOError)
    ELSE IF f.mp4.is = "Ok" /\ is_some(from_mp4(f.mp4.tag))
    THEN Ok(from_mp4(f.mp4.tag))
    ELSE Ok(None)

read_from_path(f) ==
    IF ~f.open THEN Err(IOError)
    ELSE IF f.flac.is = "Ok" THEN Ok(Some(from_flac(f.flac.tag)))
    ELSE IF ~f.seek1 THEN Err(IOError)
    ELSE IF f.id3.is = "Ok" THEN Ok(Some(from_id3(f.id3.tag)))
    ELSE IF ~f.seek2 THEN Err(IOError)
    ELSE IF f.mp4.is = "Ok" /\ is_some(from_mp4(f.mp4.tag))
    THEN Ok(from_mp4(f.mp4.tag))
    ELSE Ok(None)

\* ------------------------------------------------- the files of the model
NoVorbis == [ARTIST |-> <<>>, ALBUM |-> <<>>, ALBUMARTIST |-> <<>>,
             DATE |-> <<>>, TITLE |-> <<>>, TRACK_NUMBER |-> <<>>]
NoId3 == [artist |-> None, album |-> None, album_artist |-> None,
          year |-> None, title |-> None, track |-> None]
NoMeta == [artist |-> None, album |-> None, album_artist |-> None,
           year |-> None, title |-> None, track_number |-> None]
Utf8(text) == Some([utf8 |-> TRUE, text |-> text])
NotUtf8 == Some([utf8 |-> FALSE, text |-> ""])
Mp4Root(meta) == [userdata |-> "Some(Ok)", meta |-> meta]
NoUserdata == [userdata |-> "None", meta |-> None]

VorbisFull ==
    [NoVorbis EXCEPT !.ARTIST = <<"A1">>, !.ALBUM = <<"L1">>,
                     !.DATE = <<"2002">>, !.TITLE = <<"T1", "T2">>,
                     !.TRACK_NUMBER = << <<"5">> >>]
VorbisEmptyValues ==
    [NoVorbis EXCEPT !.ARTIST = <<"">>, !.ALBUM = <<"">>, !.TITLE = <<"T2">>,
                     !.TRACK_NUMBER = << <<"x">> >>]
Id3Partial == [NoId3 EXCEPT !.artist = Some("A2"), !.title = Some("T2")]
Id3Numbers ==
    [NoId3 EXCEPT !.album = Some("L1"), !.year = Some(1999), !.track = Some(7)]
Mp4Full ==
    Mp4Root(Some([NoMeta EXCEPT !.artist = Utf8("A2"), !.album = Utf8("L1"),
                                !.year = Utf8("2014"), !.title = Utf8("T1"),
                                !.track_number = Some(3)]))
Mp4BadText ==
    Mp4Root(Some([NoMeta EXCEPT !.artist = NotUtf8, !.title = Utf8("T2")]))

VorbisTags == {VorbisFull, VorbisEmptyValues, NoVorbis}
Id3Tags == {Id3Partial, Id3Numbers}
Mp4Roots == {Mp4Full, Mp4BadText, Mp4Root(None),
             [userdata |-> "Some(Err)", meta |-> None], NoUserdata}

Answers(tags, blank) ==
    {[is |-> "Ok", tag |-> t] : t \in tags}
    \cup {[is |-> e, tag |-> blank] : e \in {"Err(io)", "Err(format)"}}

\* Every answer the operating system and the readers can give for one path.
Files ==
    [open : BOOLEAN,
     flac : Answers(VorbisTags, NoVorbis),
     seek1 : BOOLEAN,
     id3 : Answers(Id3Tags, NoId3),
     seek2 : BOOLEAN,
     mp4 : Answers(Mp4Roots, NoUserdata)]

Plain == [open |-> TRUE,
          flac |-> [is |-> "Err(format)", tag |-> NoVorbis],
          seek1 |-> TRUE,
          id3 |-> [is |-> "Err(format)", tag |-> NoId3],
          seek2 |-> TRUE,
          mp4 |-> [is |-> "Err(format)", tag |-> NoUserdata]]
FlacFile(tag) == [Plain EXCEPT !.flac = [is |-> "Ok", tag |-> tag]]
Mp3File(tag) == [Plain EXCEPT !.id3 = [is |-> "Ok", tag |-> tag]]
Mp4File(root) == [Plain EXCEPT !.mp4 = [is |-> "Ok", tag |-> root]]
\* open(2) succeeds on a directory and every read of it fails
Directory == [Plain EXCEPT !.flac.is = "Err(io)", !.id3.is = "Err(io)",
                           !.mp4.is = "Err(io)"]

\* What the walker can yield below the library root: a walk error, or the
\* entry of one of these paths.
Entry(f) == [walk |-> "Ok", f |-> f]
WalkError == [walk |-> "Err", f |-> Plain]
LibraryFiles ==
    {FlacFile(VorbisFull), FlacFile(VorbisEmptyValues), FlacFile(NoVorbis),
     Mp3File(Id3Partial), Mp4File(Mp4Full),
     Plain, Directory, [Plain EXCEPT !.open = FALSE],
     [Plain EXCEPT !.seek1 = FALSE]}
Entries == {Entry(f) : f \in LibraryFiles} \cup {WalkError}

\* ------------------------------------------------------------- the tables
\* artist(id, name), album(id, name, artist_id, album_artist_id, year) and
\* track(id, name, artist_id, album_id, year, number); a column that is NULL
\* holds None.  The tables are sets of rows, ids are rowids.
EmptyTables == [artist |-> {}, album |-> {}, track |-> {}]

\* INTEGER PRIMARY KEY without AUTOINCREMENT: one more than the largest rowid
last_insert_rowid(table) ==
    IF table = {} THEN 1 ELSE Max({r.id : r \in table}) + 1

\* The answer of query_row for "SELECT id FROM <table> WHERE name = $name":
\* the first row in index order, or no row.
select_id(table, name) ==
    LET hits == {r.id : r \in {x \in table : x.name = Some(name)}}
    IN  IF hits = {} THEN None ELSE Some(Min(hits))

\* A foreign key column is accepted when enforcement is off or when it names
\* a row of the parent table.
fk_accepts(parent, id) ==
    ~foreign_keys \/ \E r \in parent : r.id = id

\* "DELETE FROM artist": with enforcement on, ON DELETE CASCADE removes the
\* albums of the deleted artists and the tracks of those artists and albums.
delete_from_artist(t) ==
    IF foreign_keys
    THEN LET gone == {r.id : r \in t.artist}
             albums == {a \in t.album : a.artist_id \in gone}
         IN  [artist |-> {},
              album |-> t.album \ albums,
              track |-> {r \in t.track :
                            /\ r.artist_id \notin gone
                            /\ r.album_id \notin {a.id : a \in albums}}]
    ELSE [t EXCEPT !.artist = {}]

\* Each save function answers [res, sp]: what it returns and the tables of
\* the savepoint afterwards.  sqlite says whether SQLite executes the
\* statements (it may fail on I/O, a full disk, a locked database).
save_artist(sp, artist, sqlite) ==
    LET found == select_id(sp.artist, artist)
        id == last_insert_rowid(sp.artist)
    IN  IF ~sqlite THEN [res |-> Err("SaveArtistError::SQLite"), sp |-> sp]
        ELSE IF is_some(found) THEN [res |-> Ok(unwrap(found)), sp |-> sp]
        ELSE [res |-> Ok(id),
              sp |-> [sp EXCEPT !.artist = @ \cup {[id |-> id, name |-> Some(artist)]}]]

\* (variant: no SELECT before the INSERT, every call inserts an album row)
save_album_always_inserts(sp, artist_id, album, year, sqlite) ==
    LET id == last_insert_rowid(sp.album)
    IN  IF ~sqlite THEN [res |-> Err("SaveArtistError::SQLite"), sp |-> sp]
        ELSE IF ~fk_accepts(sp.artist, artist_id)
        THEN [res |-> Err("SaveArtistError::SQLite"), sp |-> sp]
        ELSE [res |-> Ok(id),
              sp |-> [sp EXCEPT !.album = @ \cup
                        {[id |-> id, name |-> Some(album), artist_id |-> artist_id,
                          album_artist_id |-> None, year |-> year]}]]

save_album(sp, artist_id, album, year, sqlite) ==
    LET found == select_id(sp.album, album)
        id == last_insert_rowid(sp.album)
    IN  IF ~sqlite THEN [res |-> Err("SaveArtistError::SQLite"), sp |-> sp]
        ELSE IF is_some(found) THEN [res |-> Ok(unwrap(found)), sp |-> sp]
        ELSE IF ~fk_accepts(sp.artist, artist_id)
        THEN [res |-> Err("SaveArtistError::SQLite"), sp |-> sp]
        ELSE [res |-> Ok(id),
              sp |-> [sp EXCEPT !.album = @ \cup
                        {[id |-> id, name |-> Some(album), artist_id |-> artist_id,
                          album_artist_id |-> None, year |-> year]}]]

\* (variant: ON CONFLICT(name) DO NOTHING, the first row of a name stays)
save_track_do_nothing(sp, artist_id, album_id, metadata, sqlite) ==
    LET conflict == {t \in sp.track : /\ metadata.track_name # None
                                      /\ t.name = metadata.track_name}
        row(id) == [id |-> id, name |-> metadata.track_name,
                    artist_id |-> artist_id, album_id |-> album_id,
                    year |-> metadata.year, number |-> metadata.track_number]
    IN  IF ~sqlite THEN [res |-> Err("SaveTrackError::SQLite"), sp |-> sp]
        ELSE IF conflict = {}
        THEN [res |-> Ok(Unit),
              sp |-> [sp EXCEPT !.track = @ \cup {row(last_insert_rowid(sp.track))}]]
        ELSE [res |-> Ok(Unit), sp |-> sp]

\* INSERT ... ON CONFLICT(name) DO UPDATE: name is UNIQUE, and a NULL name
\* conflicts with no row.
save_track(sp, artist_id, album_id, metadata, sqlite) ==
    LET conflict == {t \in sp.track : /\ metadata.track_name # None
                                      /\ t.name = metadata.track_name}
        row(id) == [id |-> id, name |-> metadata.track_name,
                    artist_id |-> artist_id, album_id |-> album_id,
                    year |-> metadata.year, number |-> metadata.track_number]
    IN  IF ~sqlite THEN [res |-> Err("SaveTrackError::SQLite"), sp |-> sp]
        ELSE IF ~fk_accepts(sp.artist, artist_id) \/ ~fk_accepts(sp.album, album_id)
        THEN [res |-> Err("SaveTrackError::SQLite"), sp |-> sp]
        ELSE IF conflict = {}
        THEN [res |-> Ok(Unit),
              sp |-> [sp EXCEPT !.track = @ \cup {row(last_insert_rowid(sp.track))}]]
        ELSE [res |-> Ok(Unit),
              sp |-> [sp EXCEPT !.track = (@ \ conflict) \cup {row(t.id) : t \in conflict}]]

\* One pass of the loop body of cmd_scan for an entry whose metadata was
\* read: artist, album, track in that order; fault names the save function
\* in which SQLite fails, if any.  calls records the names handed over.
save_entry(sp, md, fault) ==
    LET artist == unwrap_or_else(md.artist, "Unknown")
        a == save_artist(sp, artist, fault # "save_artist")
        album == unwrap_or_else(md.album, "Unknown")
        b == save_album(a.sp, a.res.v, album, md.year, fault # "save_album")
        c == save_track(b.sp, a.res.v, b.res.v, md, fault # "save_track")
    IN  IF ~a.res.ok
        THEN [res |-> Err("CommandScanError::SaveArtist"), sp |-> a.sp,
              calls |-> [save_artist |-> Some(artist), save_album |-> None]]
        ELSE IF ~b.res.ok
        THEN [res |-> Err("CommandScanError::SaveArtist"), sp |-> b.sp,
              calls |-> [save_artist |-> Some(artist), save_album |-> Some(album)]]
        ELSE IF ~c.res.ok
        THEN [res |-> Err("CommandScanError::SaveTrack"), sp |-> c.sp,
              calls |-> [save_artist |-> Some(artist), save_album |-> Some(album)]]
        ELSE [res |-> Ok([name |-> md.track_name, artist_id |-> a.res.v,
                          album_id |-> b.res.v, year |-> md.year,
                          number |-> md.track_number]),
              sp |-> c.sp,
              calls |-> [save_artist |-> Some(artist), save_album |-> Some(album)]]

\* ------------------------------------------------------ do_main and main
\* AppError's Display: the message of the inner error, except for
\* InitDatabase, which has no arm of its own.
display(err) ==
    IF err.app = "InitDatabase" THEN "foobar" ELSE err.inner

\* main prints the error do_main returned, if any, and returns.
main(res) ==
    [stdout |-> IF res.ok THEN <<>> ELSE <<[err |-> display(res.v)]>>,
     exit_code |-> 0]

AppError(app, inner) == Err([app |-> app, inner |-> inner])

\* The process ends: printed is what the command printed, res what do_main
\* returned.
Exit(res, printed) ==
    /\ result' = res
    /\ exit_code' = main(res).exit_code
    /\ stdout' = printed \o main(res).stdout

\* ------------------------------------------------------------- histories
NoCalls == [save_artist |-> None, save_album |-> None, md |-> None]
NoWrites == [artist |-> {}, album |-> {}, track |-> {}]
Event == [cmd |-> cmd, ok |-> result.ok, library |-> library, db |-> db]

\* ids of the rows that the statements leading from sp1 to sp2 inserted, and
\* of the track row that an upsert of name rewrote
Written(sp1, sp2, w, name) ==
    [artist |-> w.artist \cup {r.id : r \in sp2.artist \ sp1.artist},
     album |-> w.album \cup {r.id : r \in sp2.album \ sp1.album},
     track |-> w.track \cup {r.id : r \in sp2.track \ sp1.track}
                       \cup {r.id : r \in {x \in sp2.track :
                                               name # None /\ x.name = name}}]

\* ----------------------------------------------------------------- scan
StoredText(v) == [type |-> "text", v |-> v]
StoredInteger(n) == [type |-> "integer", v |-> n]

\* "SELECT value FROM config WHERE key = $key": key is UNIQUE
select_value(rows, key) ==
    IF \E i \in 1..Len(rows) : rows[i].key = key
    THEN Some(rows[CHOOSE i \in 1..Len(rows) : rows[i].key = key].value)
    ELSE None

\* row.get::<String>: only a TEXT value converts
get_string(value) ==
    IF value.type = "text" THEN Ok(value.v) ELSE Err("InvalidColumnType")

\* (variant: the dropped savepoint is released, keeping what was written)
rollback_releases(snapshot, current) == current

\* (variant: the savepoint is opened after DELETE FROM artist, so that the
\* rollback keeps the deletion)
rollback_after_delete(snapshot, current) ==
    [artist |-> {},
     album |-> IF foreign_keys THEN {} ELSE snapshot.album,
     track |-> IF foreign_keys THEN {} ELSE snapshot.track]

\* Dropping a Savepoint that was not committed rolls back to it.
rollback(snapshot, current) == snapshot

ScanFails(err) ==
    /\ db' = rollback(unwrap(savepoint), db)
    /\ savepoint' = None
    /\ pc' = "idle"
    /\ Exit(AppError("CommandScan", err), <<>>)

\* cmd_scan up to the loop: read config.library, open the savepoint and
\* delete from artist.
cmd_scan_begin ==
    /\ UNCHANGED init_vars
    /\ pc = "idle"
    /\ scans < MaxScans
    /\ scans' = scans + 1
    /\ prev' = Event
    /\ cmd' = "scan"
    /\ pre' = db
    /\ written' = NoWrites
    /\ calls' = NoCalls
    /\ saved' = {}
    /\ idx' = 1
    /\ UNCHANGED <<foreign_keys, config, library, file, read, args, last_set>>
    /\ \E sqlite \in BOOLEAN :
         IF \/ select_value(config, "library") = None
            \/ ~get_string(unwrap(select_value(config, "library"))).ok
            \/ ~sqlite
         THEN /\ Exit(AppError("CommandScan", "CommandScanError::SQLite"), <<>>)
              /\ UNCHANGED <<db, savepoint, pc>>
         ELSE /\ savepoint' = Some(db)
              /\ db' = delete_from_artist(db)
              /\ pc' = "walk"
              /\ UNCHANGED <<result, exit_code, stdout>>

\* One iteration of the loop of cmd_scan.
cmd_scan_entry ==
    /\ UNCHANGED init_vars
    /\ pc = "walk"
    /\ idx <= Len(library)
    /\ UNCHANGED <<foreign_keys, config, library, scans, cmd, pre, prev, file, read, args, last_set>>
    /\ LET entry == library[idx]
           metadata == read_from_path(entry.f)
       IN  IF entry.walk = "Err"
           THEN /\ ScanFails("CommandScanError::WalkDir")
                /\ UNCHANGED <<idx, written, calls, saved>>
           ELSE IF ~metadata.ok
           THEN /\ ScanFails("CommandScanError::MetadataRead")
                /\ UNCHANGED <<idx, written, calls, saved>>
           ELSE IF is_none(metadata.v)
           THEN /\ idx' = idx + 1
                /\ calls' = NoCalls
                /\ UNCHANGED <<db, savepoint, pc, result, exit_code, stdout,
                               written, saved>>
           ELSE \E fault \in {"none", "save_artist", "save_album", "save_track"} :
                  LET md == unwrap(metadata.v)
                      s == save_entry(db, md, fault)
                  IN  /\ calls' = [save_artist |-> s.calls.save_artist,
                                   save_album |-> s.calls.save_album,
                                   md |-> Some(md)]
                      /\ written' = Written(db, s.sp, written,
                                             IF s.res.ok THEN md.track_name ELSE None)
                      /\ IF s.res.ok
                         THEN /\ db' = s.sp
                              /\ idx' = idx + 1
                              /\ saved' = {x \in saved : x.name # s.res.v.name}
                                          \cup {s.res.v}
                              /\ UNCHANGED <<savepoint, pc, result, exit_code, stdout>>
                         ELSE /\ ScanFails(s.res.v)
                              /\ UNCHANGED <<idx, saved>>

\* The walker is exhausted: commit the savepoint.
cmd_scan_commit ==
    /\ UNCHANGED init_vars
    /\ pc = "walk"
    /\ idx > Len(library)
    /\ UNCHANGED <<foreign_keys, config, library, scans, cmd, pre, prev, file,
                   read, args, last_set, idx, written, calls, saved>>
    /\ \E sqlite \in BOOLEAN :
         IF sqlite
         THEN /\ savepoint' = None
              /\ pc' = "idle"
              /\ Exit(Ok(Unit), <<>>)
              /\ UNCHANGED db
         ELSE ScanFails("CommandScanError::SQLite")

\* do_main fails in open_database or init_database, before any command.
setup_fails ==
    /\ UNCHANGED init_vars
    /\ pc = "idle"
    /\ prev' = Event
    /\ cmd' = "setup"
    /\ \E app \in {"OpenDatabase", "InitDatabase"} :
         Exit(AppError(app, "SQLite"), <<>>)
    /\ UNCHANGED <<foreign_keys, config, library, db, savepoint, pc, idx, scans,
                   pre, written, calls, saved, file, read, args, last_set>>

\* Between two processes the user removes an entry below the library root.
delete_file ==
    /\ UNCHANGED init_vars
    /\ pc = "idle"
    /\ \E i \in 2..Len(library) :
         library' = SubSeq(library, 1, i - 1) \o SubSeq(library, i + 1, Len(library))
    /\ prev' = Event
    /\ cmd' = "rm"
    /\ UNCHANGED <<foreign_keys, config, db, savepoint, pc, idx, result, exit_code,
                   stdout, scans, pre, written, calls, saved, file, read, args, last_set>>

\* Between two processes an entry below the library root becomes unreadable:
\* from then on opening it fails.
Unreadable == [Plain EXCEPT !.open = FALSE]
revoke_file ==
    /\ UNCHANGED init_vars
    /\ pc = "idle"
    /\ scans < MaxScans
    /\ \E i \in 2..Len(library) :
         /\ library[i] # Entry(Unreadable)
         /\ library' = [library EXCEPT ![i] = Entry(Unreadable)]
    /\ prev' = Event
    /\ cmd' = "chmod"
    /\ UNCHANGED <<foreign_keys, config, db, savepoint, pc, idx, result, exit_code,
                   stdout, scans, pre, written, calls, saved, file, read, args, last_set>>

\* --------------------------------------------------------- init_database
Table(name, is_strict) ==
    [kind |-> "table", name |-> name, on |-> name, strict |-> is_strict]
Index(name, table) ==
    [kind |-> "index", name |-> name, on |-> table, strict |-> FALSE]
ddls == <<Table("config", FALSE),
          Table("artist", TRUE),
          Index("artist_name", "artist"),
          Table("album", TRUE),
          Index("album_name", "album"),
          Table("track", TRUE)>>
Objects == {ddls[i].name : i \in 1..Len(ddls)}

\* savepoint.execute(ddl, []) on the schema s: the statement is parsed first
\* (the STRICT option is unknown to a SQLite older than 3.37), IF NOT EXISTS
\* makes it a no-op on an existing name, and an index needs its table. A
\* foreign key to a table that does not exist yet is accepted.
execute(s, ddl, sqlite) ==
    IF ~sqlite THEN Err("SQLite")
    ELSE IF ddl.strict /\ ~strict THEN Err("unknown table option: STRICT")
    ELSE IF ddl.name \in s THEN Ok(s)
    ELSE IF ddl.kind = "index" /\ ddl.on \notin s THEN Err("no such table")
    ELSE Ok(s \cup {ddl.name})

\* The schema was created by a former process, on a SQLite that knows STRICT.
SchemaReady ==
    /\ schema = Objects
    /\ strict = TRUE
    /\ startups = 0
    /\ schema_pre = Objects
    /\ ddl_failed = {}

LibraryPath == <<"/", "m">>
NoArgs == [key |-> None, value |-> FALSE, sqlite |-> TRUE]
NeverSet == [library |-> None, scan_parallelism |-> None]
NoEvent == [cmd |-> "none", ok |-> TRUE, library |-> <<>>, db |-> EmptyTables]

\* A fresh database whose schema exists; the walker yields the library root,
\* a directory, and then what lies below it.
Init ==
    /\ SchemaReady
    /\ foreign_keys \in BOOLEAN
    /\ config \in {<<>>, <<[key |-> "library", value |-> StoredText(LibraryPath)]>>}
    /\ library \in {<<Entry(Directory)>> \o below :
                      below \in UNION {[1..n -> Entries] : n \in 0..MaxFiles}}
    /\ db = EmptyTables
    /\ savepoint = None
    /\ pc = "idle"
    /\ idx = 1
    /\ result = Ok(Unit)
    /\ exit_code = 0
    /\ stdout = <<>>
    /\ scans = 0
    /\ cmd = "none"
    /\ pre = EmptyTables
    /\ written = NoWrites
    /\ calls = NoCalls
    /\ saved = {}
    /\ prev = NoEvent
    /\ file = Plain
    /\ read = None
    /\ args = NoArgs
    /\ last_set = NeverSet

Next ==
    \/ cmd_scan_begin
    \/ cmd_scan_entry
    \/ cmd_scan_commit
    \/ setup_fails
    \/ delete_file
    \/ revoke_file

Spec == Init /\ [][Next]_vars

\* ------------------------------------------------- read_from_path on its own
InitRead ==
    /\ SchemaReady
    /\ file \in Files
    /\ read = None
    /\ foreign_keys = FALSE
    /\ config = <<>>
    /\ library = <<Entry(Directory)>>
    /\ db = EmptyTables
    /\ savepoint = None
    /\ pc = "idle"
    /\ idx = 1
    /\ result = Ok(Unit)
    /\ exit_code = 0
    /\ stdout = <<>>
    /\ scans = 0
    /\ cmd = "none"
    /\ pre = EmptyTables
    /\ written = NoWrites
    /\ calls = NoCalls
    /\ saved = {}
    /\ prev = NoEvent
    /\ args = NoArgs
    /\ last_set = NeverSet

extract ==
    /\ UNCHANGED init_vars
    /\ read = None
    /\ read' = Some(read_from_path(file))
    /\ UNCHANGED <<foreign_keys, config, library, db, savepoint, pc, idx, result,
                   exit_code, stdout, scans, cmd, pre, written, calls, saved,
                   prev, file, args, last_set>>

NextRead == extract

SpecRead == InitRead /\ [][NextRead]_vars

\* --------------------------------------------------------------- config
MaxText == 2        \* characters in a command-line value
Alphabet == {"/", "m", "4", "+"}
Texts == UNION {[1..n -> Alphabet] : n \in 0..MaxText}
Keys == {"library", "scan_parallelism", "volume"}

VALID_KEYS == {"library", "scan_parallelism"}
is_valid_key(key) == key \in VALID_KEYS

\* usize's Display: the decimal digits
RECURSIVE to_string(_)
to_string(n) ==
    IF n < 10 THEN <<Digits[n + 1]>>
    ELSE to_string(n \div 10) \o <<Digits[(n % 10) + 1]>>

\* The file system the config command sees: the root holds the directory
\* "m" and the regular file "4"; the working directory is the root.
RECURSIVE components(_)
components(path) ==
    IF path = <<>> THEN <<>>
    ELSE IF Head(path) = "/" THEN components(Tail(path))
    ELSE LET rest == components(Tail(path))
         IN  IF Len(path) > 1 /\ path[2] # "/" /\ rest # <<>>
             THEN <<(<<Head(path)>> \o Head(rest))>> \o Tail(rest)
             ELSE <<(<<Head(path)>>)>> \o rest
path_kind(path) ==
    LET c == components(path)
    IN  IF path = <<>> THEN "missing"
        ELSE IF c = <<>> THEN "dir"
        ELSE IF c = << <<"m">> >> THEN "dir"
        ELSE IF c = << <<"4">> >> /\ path[Len(path)] # "/" THEN "file"
        ELSE "missing"
\* fs::canonicalize of an existing path: absolute, no repeated or trailing "/"
RECURSIVE join(_)
join(c) == IF c = <<>> THEN <<>> ELSE <<"/">> \o Head(c) \o join(Tail(c))
canonicalize(path) ==
    IF components(path) = <<>> THEN <<"/">> ELSE join(components(path))

\* fs says whether metadata() and canonicalize() succeed on the path.
get_library_path(value, fs) ==
    IF path_kind(value) = "missing" THEN Err("GetLibraryPathError::DoestNotExist")
    ELSE IF path_kind(value) # "dir" THEN Err("GetLibraryPathError::NotADirectory")
    ELSE IF ~fs THEN Err("GetLibraryPathError::IO")
    ELSE Ok(canonicalize(value))

Library(path) == [variant |-> "Library", val |-> path]
ScanParallelism(n) == [variant |-> "ScanParallelism", val |-> n]

\* impl fmt::Display for Config
fmt(c) == IF c.variant = "Library" THEN c.val ELSE to_string(c.val)

\* impl rusqlite::ToSql for Config
to_sql(c) ==
    IF c.variant = "Library" THEN StoredText(c.val) ELSE StoredInteger(c.val)

\* config.value is declared ANY in a table that is not STRICT, so the column
\* has NUMERIC affinity: a text that is a well-formed integer is stored as
\* that integer.
is_integer_literal(text) ==
    LET body == IF text # <<>> /\ text[1] \in {"+", "-"} THEN Tail(text) ELSE text
    IN  body # <<>> /\ \A i \in 1..Len(body) : IsDigit(body[i])
numeric_affinity(value) ==
    IF value.type = "text" /\ is_integer_literal(value.v)
    THEN StoredInteger(DecimalVal(IF value.v[1] \in {"+", "-"}
                                  THEN Tail(value.v) ELSE value.v)
                       * (IF value.v[1] = "-" THEN -1 ELSE 1))
    ELSE value

\* INSERT INTO config ... ON CONFLICT(key) DO UPDATE SET value = excluded.value
upsert_config(rows, key, value) ==
    IF \E i \in 1..Len(rows) : rows[i].key = key
    THEN [i \in 1..Len(rows) |->
            IF rows[i].key = key THEN [rows[i] EXCEPT !.value = numeric_affinity(value)]
            ELSE rows[i]]
    ELSE Append(rows, [key |-> key, value |-> numeric_affinity(value)])

ConfigError(inner) == AppError("CommandConfig", inner)

\* `zik config <key> <value>`
cmd_config_set ==
    /\ UNCHANGED init_vars
    /\ pc = "idle"
    /\ \E key \in Keys, value \in Texts, sqlite \in BOOLEAN, fs \in BOOLEAN :
         LET dir == get_library_path(value, fs)
             n == parse_usize(value)
             store(c) ==
                 IF sqlite
                 THEN /\ config' = upsert_config(config, key, to_sql(c))
                      /\ last_set' = [last_set EXCEPT ![key] = Some(c)]
                      /\ Exit(Ok(Unit), <<>>)
                 ELSE /\ Exit(ConfigError("CommandConfigError::SQLite"), <<>>)
                      /\ UNCHANGED <<config, last_set>>
         IN  /\ args' = [key |-> Some(key), value |-> TRUE, sqlite |-> sqlite]
             /\ IF key = "library"
                THEN IF dir.ok THEN store(Library(dir.v))
                     ELSE /\ Exit(ConfigError(dir.v), <<>>)
                          /\ UNCHANGED <<config, last_set>>
                ELSE IF key = "scan_parallelism"
                THEN IF n.ok THEN store(ScanParallelism(n.v))
                     ELSE /\ Exit(ConfigError("CommandConfigError::InvalidScanParallelismValue"), <<>>)
                          /\ UNCHANGED <<config, last_set>>
                ELSE /\ Exit(ConfigError("CommandConfigError::InvalidKey"), <<>>)
                     /\ UNCHANGED <<config, last_set>>
    /\ cmd' = "config"
    /\ UNCHANGED <<foreign_keys, library, db, savepoint, pc, idx, scans, pre,
                   written, calls, saved, prev, file, read>>

\* `zik config <key>`
cmd_config_get ==
    /\ UNCHANGED init_vars
    /\ pc = "idle"
    /\ \E key \in Keys, sqlite \in BOOLEAN :
         LET row == select_value(config, key)
         IN  /\ args' = [key |-> Some(key), value |-> FALSE, sqlite |-> sqlite]
             /\ IF ~is_valid_key(key)
                THEN Exit(ConfigError("CommandConfigError::InvalidKey"), <<>>)
                ELSE IF ~sqlite
                THEN Exit(ConfigError("CommandConfigError::SQLite"), <<>>)
                ELSE IF row = None
                THEN Exit(ConfigError("CommandConfigError::NoValue"), <<>>)
                ELSE IF ~get_string(unwrap(row)).ok
                THEN Exit(ConfigError("CommandConfigError::SQLite"), <<>>)
                ELSE Exit(Ok(Unit), <<[key |-> key, value |-> get_string(unwrap(row)).v]>>)
    /\ cmd' = "config"
    /\ UNCHANGED <<foreign_keys, config, library, db, savepoint, pc, idx, scans,
                   pre, written, calls, saved, prev, file, read, last_set>>

\* `zik config`: print the rows in order until one does not convert
RECURSIVE dump(_)
dump(rows) ==
    IF rows = <<>> THEN [res |-> Ok(Unit), printed |-> <<>>]
    ELSE IF ~get_string(Head(rows).value).ok
    THEN [res |-> ConfigError("CommandConfigError::SQLite"), printed |-> <<>>]
    ELSE LET rest == dump(Tail(rows))
         IN  [res |-> rest.res,
              printed |-> <<[key |-> Head(rows).key,
                             value |-> get_string(Head(rows).value).v]>>
                          \o rest.printed]

cmd_config_dump ==
    /\ UNCHANGED init_vars
    /\ pc = "idle"
    /\ \E sqlite \in BOOLEAN :
         /\ args' = [key |-> None, value |-> FALSE, sqlite |-> sqlite]
         /\ IF sqlite THEN Exit(dump(config).res, dump(config).printed)
            ELSE Exit(ConfigError("CommandConfigError::SQLite"), <<>>)
    /\ cmd' = "config"
    /\ UNCHANGED <<foreign_keys, config, library, db, savepoint, pc, idx, scans,
                   pre, written, calls, saved, prev, file, read, last_set>>

InitConfig ==
    /\ SchemaReady
    /\ config = <<>>
    /\ args = NoArgs
    /\ last_set = NeverSet
    /\ foreign_keys = FALSE
    /\ library = <<Entry(Directory)>>
    /\ db = EmptyTables
    /\ savepoint = None
    /\ pc = "idle"
    /\ idx = 1
    /\ result = Ok(Unit)
    /\ exit_code = 0
    /\ stdout = <<>>
    /\ scans = 0
    /\ cmd = "none"
    /\ pre = EmptyTables
    /\ written = NoWrites
    /\ calls = NoCalls
    /\ saved = {}
    /\ prev = NoEvent
    /\ file = Plain
    /\ read = None

NextConfig ==
    \/ cmd_config_set
    \/ cmd_config_get
    \/ cmd_config_dump

SpecConfig == InitConfig /\ [][NextConfig]_vars

\* ------------------------------------------- init_database on its own
\* A process without a subcommand: do_main opens the database, runs
\* init_database and returns.
InitFails ==
    /\ schema' = rollback(unwrap(savepoint), schema)
    /\ savepoint' = None
    /\ pc' = "idle"
    /\ Exit(AppError("InitDatabase", "InitDatabaseError::SQLite"), stdout)

\* db.savepoint()
init_database_begin ==
    /\ pc = "idle"
    /\ startups < MaxStartups
    /\ startups' = startups + 1
    /\ cmd' = "init"
    /\ schema_pre' = schema
    /\ ddl_failed' = {}
    /\ idx' = 1
    /\ UNCHANGED <<foreign_keys, config, library, db, scans, pre, written, calls,
                   saved, prev, file, read, args, last_set, strict>>
    /\ \E sqlite \in BOOLEAN :
         IF sqlite
         THEN /\ savepoint' = Some(schema)
              /\ pc' = "ddl"
              /\ stdout' = <<>>
              /\ UNCHANGED <<schema, result, exit_code>>
         ELSE /\ UNCHANGED <<schema, savepoint, pc>>
              /\ Exit(AppError("InitDatabase", "InitDatabaseError::SQLite"), <<>>)

\* One iteration of the loop over ddls: a failure is printed and the loop
\* goes on.
init_database_ddl ==
    /\ pc = "ddl"
    /\ idx <= Len(ddls)
    /\ idx' = idx + 1
    /\ UNCHANGED <<foreign_keys, config, library, db, savepoint, pc, result,
                   exit_code, scans, cmd, pre, written, calls, saved, prev, file,
                   read, args, last_set, strict, startups, schema_pre>>
    /\ \E sqlite \in BOOLEAN :
         LET r == execute(schema, ddls[idx], sqlite)
         IN  IF r.ok
             THEN /\ schema' = r.v
                  /\ UNCHANGED <<stdout, ddl_failed>>
             ELSE /\ stdout' = Append(stdout, [err |-> "unable to execute statement"])
                  /\ ddl_failed' = ddl_failed \cup {idx}
                  /\ UNCHANGED schema

\* savepoint.commit(), and the return of do_main
init_database_commit ==
    /\ pc = "ddl"
    /\ idx > Len(ddls)
    /\ UNCHANGED <<foreign_keys, config, library, db, idx, scans, cmd, pre, written,
                   calls, saved, prev, file, read, args, last_set, strict,
                   startups, schema_pre, ddl_failed>>
    /\ \E sqlite \in BOOLEAN :
         IF sqlite
         THEN /\ savepoint' = None
              /\ pc' = "idle"
              /\ Exit(Ok(Unit), stdout)
              /\ UNCHANGED schema
         ELSE InitFails

\* A database file that does not exist yet, on either kind of SQLite.
InitInit ==
    /\ schema = {}
    /\ strict \in BOOLEAN
    /\ startups = 0
    /\ schema_pre = {}
    /\ ddl_failed = {}
    /\ foreign_keys = FALSE
    /\ config = <<>>
    /\ library = <<Entry(Directory)>>
    /\ db = EmptyTables
    /\ savepoint = None
    /\ pc = "idle"
    /\ idx = 1
    /\ result = Ok(Unit)
    /\ exit_code = 0
    /\ stdout = <<>>
    /\ scans = 0
    /\ cmd = "none"
    /\ pre = EmptyTables
    /\ written = NoWrites
    /\ calls = NoCalls
    /\ saved = {}
    /\ prev = NoEvent
    /\ file = Plain
    /\ read = None
    /\ args = NoArgs
    /\ last_set = NeverSet

NextInit ==
    \/ init_database_begin
    \/ init_database_ddl
    \/ init_database_commit

SpecInit == InitInit /\ [][NextInit]_vars

\* =================================================================== claims
ScanReturned == pc = "idle" /\ cmd = "scan"
ScanOk == ScanReturned /\ result.ok
LoopErrors == {"CommandScanError::WalkDir", "CommandScanError::MetadataRead",
               "CommandScanError::SaveArtist", "CommandScanError::SaveTrack"}
LoopFailed == ScanReturned /\ ~result.ok /\ result.v.inner \in LoopErrors

\* C1: after a scan that returned success, every track row's artist_id is
\* the id of an artist row and its album_id is the id of an album row.
C1_TrackReferencesExist ==
    ScanOk => \A t \in db.track :
                /\ \E a \in db.artist : a.id = t.artist_id
                /\ \E a \in db.album : a.id = t.album_id

\* C2: when a step inside the loop of scan fails, scan returns the error of
\* that step, nothing is committed, and the tables are what they were before
\* the scan began: nothing that scan wrote is in the database.
C2_FailedScanLeavesNothing ==
    LoopFailed =>
        /\ savepoint = None
        /\ db = pre
        /\ result.v.app = "CommandScan"
        /\ LET entry == library[idx]
               inner == result.v.inner
           IN  IF entry.walk = "Err" THEN inner = "CommandScanError::WalkDir"
               ELSE IF ~read_from_path(entry.f).ok
               THEN inner = "CommandScanError::MetadataRead"
               ELSE /\ calls.md = read_from_path(entry.f).v
                    /\ inner \in {"CommandScanError::SaveArtist",
                                  "CommandScanError::SaveTrack"}
                    /\ calls.save_album = None
                         => inner = "CommandScanError::SaveArtist"

\* A scan that had already inserted rows failed at a later entry.
C2_FailedAfterWrites ==
    /\ LoopFailed
    /\ idx = 3
    /\ written.artist # {} /\ written.album # {} /\ written.track # {}

\* The content of the three tables up to a renaming of row ids: each row
\* with its references replaced by the rows they name, and how many rows
\* there are of each kind.
Counted(rows, canon(_)) ==
    {<<c, Cardinality({r \in rows : canon(r) = c})>> : c \in {canon(r) : r \in rows}}
ArtistOf(t, id) == {a.name : a \in {x \in t.artist : x.id = id}}
AlbumOf(t, id) ==
    {[name |-> a.name, artist |-> ArtistOf(t, a.artist_id), year |-> a.year] :
        a \in {x \in t.album : x.id = id}}
Content(t) ==
    LET artist(r) == r.name
        album(r) == [name |-> r.name, artist |-> ArtistOf(t, r.artist_id),
                     year |-> r.year]
        track(r) == [name |-> r.name, artist |-> ArtistOf(t, r.artist_id),
                     album |-> AlbumOf(t, r.album_id), year |-> r.year,
                     number |-> r.number]
    IN  [artist |-> Counted(t.artist, artist),
         album |-> Counted(t.album, album),
         track |-> Counted(t.track, track)]

\* C3: a successful scan that directly follows a successful scan of the same
\* library leaves the three tables with the content the first one left, up
\* to a renaming of row ids.
C3_RescanSameContent ==
    (ScanOk /\ prev.cmd = "scan" /\ prev.ok /\ prev.library = library)
        => Content(db) = Content(prev.db)

\* C4: after a successful scan every artist, album and track row was written
\* by that scan; rows of earlier scans are gone.
C4_FullRebuild ==
    ScanOk => /\ \A r \in db.artist : r.id \in written.artist
              /\ \A r \in db.album : r.id \in written.album
              /\ \A r \in db.track : r.id \in written.track

\* C5: for an entry with a metadata record, save_artist and save_album get a
\* non-empty name: the tag's value when the tag is there, "Unknown" when not.
C5_NamesNonEmpty ==
    calls.md # None =>
        LET md == unwrap(calls.md)
        IN  /\ calls.save_artist # None
            /\ unwrap(calls.save_artist) # ""
            /\ unwrap(calls.save_artist) = unwrap_or_else(md.artist, "Unknown")
            /\ calls.save_album # None =>
                 /\ unwrap(calls.save_album) # ""
                 /\ unwrap(calls.save_album) = unwrap_or_else(md.album, "Unknown")

\* C6: the exit code of a process is 0 exactly when do_main returned Ok, and
\* an error that do_main returned has been printed.
C6_ExitCodeTellsFailure ==
    (pc = "idle" /\ cmd \in {"scan", "setup", "config"}) =>
        /\ (exit_code = 0) <=> result.ok
        /\ ~result.ok => (stdout # <<>> /\ stdout[Len(stdout)] = [err |-> result.v.inner])

\* C9: no two track rows share a name that is not NULL, and inside a scan
\* the row of a name holds the artist_id, album_id, year and number of the
\* last save_track call with that name.
C9_TrackUpsertByName ==
    /\ \A t1, t2 \in db.track :
         (t1.name # None /\ t1.name = t2.name) => t1 = t2
    /\ (pc = "walk" \/ ScanOk) =>
         \A s \in saved :
            s.name # None =>
              \E t \in db.track :
                 /\ t.name = s.name
                 /\ t.artist_id = s.artist_id /\ t.album_id = s.album_id
                 /\ t.year = s.year /\ t.number = s.number

\* A second file with the title of an earlier one has been saved: the one
\* row of that title holds what the second file brought.
C9_SecondFileOverwrote ==
    /\ pc = "walk" /\ idx = 4
    /\ library[2] = Entry(FlacFile(VorbisFull))
    /\ library[3] = Entry(Mp4File(Mp4Full))
    /\ db.track = {[id |-> 1, name |-> Some("T1"), artist_id |-> 2, album_id |-> 1,
                    year |-> Some("2014"), number |-> 3]}

\* C10: no track row has a NULL name, because a file without a track name is
\* skipped.
C10_NoNullTrackName ==
    \A t \in db.track : t.name # None

\* C7: `config <key>` for a recognised key prints the value stored by the
\* most recent successful set of that key, or fails with NoValue when the
\* key was never set, and does nothing else (SQLite executing the query).
C7_GetAfterSet ==
    (pc = "idle" /\ cmd = "config" /\ args.key # None /\ ~args.value
        /\ is_valid_key(unwrap(args.key)) /\ args.sqlite) =>
        LET key == unwrap(args.key)
        IN  IF last_set[key] = None
            THEN ~result.ok /\ result.v.inner = "CommandConfigError::NoValue"
            ELSE /\ result.ok
                 /\ stdout = <<[key |-> key, value |-> fmt(unwrap(last_set[key]))]>>

ReturnedNone(r) == r.ok /\ r.v = None
SameResult(r1, r2) == r1.ok = r2.ok /\ r1.v = r2.v
\* the same file with every failed read of a reader turned into wrong magic
ReadAsFormat(f) ==
    LET a(x) == IF x.is = "Err(io)" THEN [x EXCEPT !.is = "Err(format)"] ELSE x
    IN  [f EXCEPT !.flac = a(@), !.id3 = a(@), !.mp4 = a(@)]
\* a reader that read_from_path ran on the file met a failed read
ProbeHitIO(f) ==
    /\ f.open
    /\ \/ f.flac.is = "Err(io)"
       \/ f.flac.is # "Ok" /\ f.seek1 /\ f.id3.is = "Err(io)"
       \/ f.flac.is # "Ok" /\ f.seek1 /\ f.id3.is # "Ok" /\ f.seek2
          /\ f.mp4.is = "Err(io)"

\* C8 as stated: a failed read while a reader probes the file is returned as
\* an error, so None is returned only when no probe met a failed read.
C8_ProbeIOErrorPropagated ==
    read # None =>
        /\ ProbeHitIO(file) => ~unwrap(read).ok
        /\ ReturnedNone(unwrap(read)) => ~ProbeHitIO(file)

\* C8 amended: a failed open and a failed rewind between two probes are
\* returned as an error; a failed read inside a probe makes the probe
\* negative exactly as wrong magic does, so None is returned only when the
\* open and both rewinds succeeded.
C8_OnlyOpenAndSeekPropagate ==
    read # None =>
        /\ ~file.open => ~unwrap(read).ok
        /\ (file.open /\ file.flac.is # "Ok" /\ ~file.seek1) => ~unwrap(read).ok
        /\ (file.open /\ file.flac.is # "Ok" /\ file.seek1 /\ file.id3.is # "Ok"
              /\ ~file.seek2) => ~unwrap(read).ok
        /\ SameResult(unwrap(read), read_from_path(ReadAsFormat(file)))
        /\ ReturnedNone(unwrap(read)) => (file.open /\ file.seek1 /\ file.seek2)

\* read_from_path answered None for a path whose every read fails
C8_DirectoryIsSkipped ==
    file = Directory /\ read # None /\ ReturnedNone(unwrap(read))

\* A scan failed on reading a file, after a former scan had committed a
\* catalogue.
ReadFailed ==
    /\ ScanReturned
    /\ ~result.ok
    /\ result.v.inner = "CommandScanError::MetadataRead"
    /\ pre.artist # {} /\ pre.track # {}

\* C11 (as stated): when a file read fails in the middle of a scan, the
\* catalogue of the previous successful scan is discarded with the rows of
\* the partial new scan: afterwards some row of it is no longer in the tables.
C11_FailedReadDiscardsCatalogue ==
    ReadFailed =>
        \/ ~(pre.artist \subseteq db.artist)
        \/ ~(pre.album \subseteq db.album)
        \/ ~(pre.track \subseteq db.track)

\* C11 (amended): when a file read fails in the middle of a scan, the
\* savepoint that is dropped takes DELETE FROM artist back with the rows of
\* the partial new scan: afterwards the three tables hold exactly the rows
\* of the previous successful scan.
C11_FailedReadRestoresCatalogue ==
    ReadFailed =>
        /\ db.artist = pre.artist
        /\ db.album = pre.album
        /\ db.track = pre.track
        /\ prev.db = pre

\* The second scan had written rows of its own when a read failed.
C11_ReadFailedAfterRescanWrote ==
    /\ ReadFailed
    /\ scans = 2
    /\ written.artist # {} /\ written.track # {}
    /\ db = pre

InitReturned == pc = "idle" /\ cmd = "init"

\* C12: schema creation is all-or-nothing: after init_database returns,
\* either every table and index of the DDL list exists or none of those
\* this run created does; a schema in which some statements took effect and
\* a failed one did not is never committed.
C12_SchemaAllOrNothing ==
    InitReturned =>
        \/ schema = Objects
        \/ schema = schema_pre

\* The loop body has just saved the entry before idx.
EntrySaved == pc = "walk" /\ idx > 1 /\ calls.md # None
\* What the loop body makes of the entry at position i, for an entry that is
\* a supported audio file.
Supported(i) ==
    /\ library[i].walk = "Ok"
    /\ read_from_path(library[i].f).ok
    /\ is_some(read_from_path(library[i].f).v)
MetadataAt(i) == unwrap(read_from_path(library[i].f).v)
ArtistAt(i) == unwrap_or_else(MetadataAt(i).artist, "Unknown")
AlbumAt(i) == unwrap_or_else(MetadataAt(i).album, "Unknown")
\* The earlier entries of this scan that carry the album name of the entry
\* just saved, and the first of them.
SameAlbumBefore ==
    {i \in 1..(idx - 2) : Supported(i) /\ AlbumAt(i) = AlbumAt(idx - 1)}
FirstOfAlbum == Min(SameAlbumBefore)
\* The entry just saved is a second file of an album whose first file of
\* this scan has another artist.
SecondArtistOfAlbum ==
    /\ EntrySaved
    /\ SameAlbumBefore # {}
    /\ ArtistAt(FirstOfAlbum) # ArtistAt(idx - 1)
AlbumRows == {a \in db.album : a.name = Some(AlbumAt(idx - 1))}
TheAlbum == CHOOSE a \in AlbumRows : TRUE
\* The track row the entry just saved wrote: the row of its name, or for a
\* NULL name the row inserted last.
TheTrack ==
    IF MetadataAt(idx - 1).track_name # None
    THEN CHOOSE t \in db.track : t.name = MetadataAt(idx - 1).track_name
    ELSE CHOOSE t \in db.track : t.id = Max({x.id : x \in db.track})
ArtistId(name) == unwrap(select_id(db.artist, name))

====
